---- MODULE Spec2Model ----
(***************************************************************************)
(* A model of getSolarPanelData.go: the row extractor of parseRealTime,    *)
(* the JSON persistence of panels.json / global.json, and the linear       *)
(* fetch - parse - merge - save pipeline of main.                          *)
(*                                                                         *)
(* Texts on which the code works character by character (table cells,     *)
(* inverter identifiers) are sequences of one-character strings.  A file   *)
(* is a record [exists, valid, data]: valid says whether its bytes decode  *)
(* as a JSON array, data is the decoded array.  float64 values are exact   *)
(* rationals, NaN or Inf.                                                  *)
(***************************************************************************)
EXTENDS Integers, Sequences, FiniteSets, TLC

VARIABLES
    files,        \* file name -> content of the file on disk
    pc,           \* process -> position of its run in main
    liveDataMap,  \* process -> result of parseRealTime
    solarData,    \* process -> result of makeSolarData
    panels,       \* process -> the loaded (then merged) panel slice
    globalData,   \* process -> the GlobalData built by this run
    globals,      \* process -> the loaded summaries plus globalData
    errs,         \* process -> the errors this run met (history)
    runs,         \* number of runs started so far; also the wall clock
    before,       \* process -> files as they were when its run started (history)
    loaded,       \* process -> file contents its run read (history)
    dataMap,      \* parseRealTime's dataMap while the row callbacks run
    rows,         \* the table rows the callback has been given so far (history)
    cellText,     \* a cell text given to the numeric extraction
    cellValue,    \* the integer the extraction left in the field
    cellDone      \* whether the extraction has run on cellText

runVars == <<files, pc, liveDataMap, solarData, panels, globalData, globals,
             errs, runs, before, loaded>>
parseVars == <<dataMap, rows>>
cellVars == <<cellText, cellValue, cellDone>>
vars == <<runVars, parseVars, cellVars>>

(***************************************************************************)
(* Bounds of the model.                                                    *)
(***************************************************************************)
MaxPanels == 2     \* panels in the initial panels.json
MaxRuns == 2       \* invocations of the tool
MaxRows == 4       \* rows of the inverter status table
MaxCellLen == 3    \* characters of an enumerated cell text

(***************************************************************************)
(* Constants of the program.                                               *)
(***************************************************************************)
panelFile == "panels.json"
globalFile == "global.json"
maxPower == 250

Procs == {1, 2}

(***************************************************************************)
(* Characters and strings.                                                 *)
(***************************************************************************)
Digits == <<"0", "1", "2", "3", "4", "5", "6", "7", "8", "9">>
DigitSet == {Digits[i] : i \in 1..10}
IsDigit(c) == c \in DigitSet
DigitVal(c) == (CHOOSE i \in 1..10 : Digits[i] = c) - 1

Uppers == <<"A", "B", "C", "D", "E", "F", "G", "H", "I", "J", "K", "L", "M",
            "N", "O", "P", "Q", "R", "S", "T", "U", "V", "W", "X", "Y", "Z">>
Lowers == <<"a", "b", "c", "d", "e", "f", "g", "h", "i", "j", "k", "l", "m",
            "n", "o", "p", "q", "r", "s", "t", "u", "v", "w", "x", "y", "z">>

\* The simple case folding of one character (ASCII letters).
FoldChar(c) ==
    IF \E i \in 1..26 : Uppers[i] = c
    THEN Lowers[CHOOSE i \in 1..26 : Uppers[i] = c]
    ELSE c

\* strings.EqualFold: equal under simple case folding, character by character.
EqualFold(s, t) ==
    /\ Len(s) = Len(t)
    /\ \A i \in 1..Len(s) : FoldChar(s[i]) = FoldChar(t[i])

\* The literal the header row is recognised by.
HeaderID == <<"I", "n", "v", "e", "r", "t", "e", "r", " ", "I", "D">>

(***************************************************************************)
(* The regular expression [-]?\d[\d,]*[\.]?[\d{2}]* and FindAllString.     *)
(***************************************************************************)
RECURSIVE SkipWhile(_, _, _)
SkipWhile(s, j, set) ==
    IF j <= Len(s) /\ s[j] \in set THEN SkipWhile(s, j + 1, set) ELSE j

\* The end (exclusive) of the match that starts at position i; 0 if none does.
\* Every part after \d is optional and greedy, so no backtracking happens.
MatchEnd(s, i) ==
    LET d == IF s[i] = "-" THEN i + 1 ELSE i
    IN  IF d > Len(s) \/ ~IsDigit(s[d])
        THEN 0
        ELSE LET a == SkipWhile(s, d + 1, DigitSet \cup {","})
                 b == IF a <= Len(s) /\ s[a] = "." THEN a + 1 ELSE a
             IN  SkipWhile(s, b, DigitSet \cup {"{", "}"})

\* re.FindAllString(s, -1): the successive leftmost non-overlapping matches.
RECURSIVE FindAllFrom(_, _)
FindAllFrom(s, i) ==
    IF i > Len(s) THEN <<>>
    ELSE LET e == MatchEnd(s, i)
         IN  IF e = 0 THEN FindAllFrom(s, i + 1)
             ELSE <<SubSeq(s, i, e - 1)>> \o FindAllFrom(s, e)

FindAllString(s) == FindAllFrom(s, 1)

\* strings.Join(list, "")
RECURSIVE Join(_)
Join(list) == IF list = <<>> THEN <<>> ELSE Head(list) \o Join(Tail(list))

\* The value of a string of decimal digits.
RECURSIVE DigitsValue(_)
DigitsValue(s) ==
    IF s = <<>> THEN 0
    ELSE 10 * DigitsValue(SubSeq(s, 1, Len(s) - 1)) + DigitVal(s[Len(s)])

\* strconv.ParseInt(s, 10, 64): an optional sign, then decimal digits only.
\* (The texts of the model are short: the range error never arises.)
ParseInt(s) ==
    LET signed == s # <<>> /\ s[1] \in {"-", "+"}
        body == IF signed THEN Tail(s) ELSE s
    IN  IF body = <<>> \/ \E i \in 1..Len(body) : ~IsDigit(body[i])
        THEN [err |-> TRUE, val |-> 0]
        ELSE [err |-> FALSE,
              val |-> IF signed /\ s[1] = "-" THEN 0 - DigitsValue(body)
                      ELSE DigitsValue(body)]

\* The field a cell leaves: the parsed integer, or the zero value on error.
ExtractInt(cell) ==
    LET r == ParseInt(Join(FindAllString(cell)))
    IN  IF r.err THEN 0 ELSE r.val

(***************************************************************************)
(* parseRealTime: the row callback.                                        *)
(***************************************************************************)
\* LiveData{}: the zero value.
ZeroLiveData == [CurrentPower |-> 0, Voltage |-> 0, Temperature |-> 0, Date |-> ""]

\* The empty map (make(map[string]LiveData)).
EmptyMap == [id \in {} |-> ZeroLiveData]

\* A row is the ChildText of its cells 1, 2, 4, 5 and 6.
\* The LiveData the callback builds from a row.
RowLiveData(row) ==
    [CurrentPower |-> ExtractInt(row.Power),
     Voltage |-> ExtractInt(row.Voltage),
     Temperature |-> ExtractInt(row.Temperature),
     Date |-> row.Date]

\* if strings.EqualFold(InverterID, "Inverter ID") { return }
IsHeaderRow(row) == EqualFold(row.InverterID, HeaderID)

\* if liveData.CurrentPower == 0 { return }
IsDiscardedNever(liveData) == FALSE
IsDiscarded(liveData) == liveData.CurrentPower = 0

\* dataMap[InverterID] = liveData
MapPut(m, id, liveData) ==
    [x \in DOMAIN m \cup {id} |-> IF x = id THEN liveData ELSE m[x]]

\* The callback of c.OnHTML("body > table > tbody > tr", ...): the map after it.
OnHTMLRow(m, row) ==
    IF IsHeaderRow(row) THEN m
    ELSE IF IsDiscarded(RowLiveData(row)) THEN m
    ELSE MapPut(m, row.InverterID, RowLiveData(row))

\* The callbacks over a whole table, in document order.
RECURSIVE ParseTable(_)
ParseTable(table) ==
    IF table = <<>> THEN EmptyMap
    ELSE OnHTMLRow(ParseTable(SubSeq(table, 1, Len(table) - 1)), table[Len(table)])

\* liveDataMap[id]: the zero value for a missing key.
Lookup(m, id) == IF id \in DOMAIN m THEN m[id] ELSE ZeroLiveData

(***************************************************************************)
(* The inputs of the model: identifiers, cells, rows, tables.              *)
(***************************************************************************)
INV1 == <<"I", "N", "V", "1">>
INV2 == <<"I", "N", "V", "2">>
INV3 == <<"I", "N", "V", "3">>
HeaderUpper == <<"I", "N", "V", "E", "R", "T", "E", "R", " ", "I", "D">>

CellPower == <<"P", "o", "w", "e", "r">>
Cell0W == <<"0", " ", "W">>
Cell7W == <<"7", " ", "W">>
Cell100W == <<"1", "0", "0", " ", "W">>
Cell150W == <<"1", "5", "0", " ", "W">>
Cell1234W == <<"1", "2", "3", "4", " ", "W">>
CellThousands == <<"1", ",", "2", "3", "4", " ", "W">>
CellTwoRuns == <<"1", "2", " ", "3", "4">>
Cell230V == <<"2", "3", "0", " ", "V">>
Cell35C == <<"3", "5", " ", "C">>

SeqsUpTo(S, n) == UNION {[1..k -> S] : k \in 0..n}

\* ChildText returns the text with leading and trailing white space removed.
IsTrimmed(s) == s = <<>> \/ (s[1] # " " /\ s[Len(s)] # " ")

CellChars == {"0", "1", "2", ",", ".", "-", " ", "W", "{"}

\* The cell texts the numeric extraction is tried on.
Cells ==
    {s \in SeqsUpTo(CellChars, MaxCellLen) : IsTrimmed(s)}
    \cup {CellPower, Cell0W, Cell1234W, CellThousands, CellTwoRuns, Cell230V, Cell35C}

Row(id, power) ==
    [InverterID |-> id, Power |-> power, Voltage |-> Cell230V,
     Temperature |-> Cell35C, Date |-> "2024-01-01 10:00:00"]

\* The rows of the status tables given to the row callback alone.
TableRows ==
    {Row(INV1, Cell1234W), Row(INV1, Cell7W), Row(INV1, Cell0W), Row(INV1, CellPower),
     Row(INV2, Cell1234W), Row(INV2, Cell0W),
     Row(HeaderID, CellPower), Row(HeaderUpper, Cell1234W)}

\* The rows of the status pages a run fetches.
RunRows ==
    {Row(HeaderID, CellPower), Row(INV1, Cell100W), Row(INV2, Cell150W),
     Row(INV3, Cell100W), Row(INV1, Cell0W)}

\* The mappings parseRealTime returns for the status pages of the model.
LiveMaps == {ParseTable(t) : t \in SeqsUpTo(RunRows, MaxRows)}

(***************************************************************************)
(* float64 arithmetic of the performance ratio.                            *)
(***************************************************************************)
RECURSIVE GCD(_, _)
GCD(a, b) == IF b = 0 THEN a ELSE GCD(b, a % b)

Abs(x) == IF x < 0 THEN 0 - x ELSE x

NaN == [kind |-> "NaN", num |-> 0, den |-> 0]
Inf(sign) == [kind |-> "Inf", num |-> sign, den |-> 0]

\* The finite value n/d (d > 0), in lowest terms.
Ratio(n, d) ==
    LET g == GCD(Abs(n), d)
    IN  [kind |-> "num", num |-> n \div g, den |-> d \div g]

\* float64(a) / float64(b): 0/0 is NaN and x/0 an infinity, never a panic.
FloatDiv(a, b) ==
    IF b = 0
    THEN IF a = 0 THEN NaN ELSE Inf(IF a > 0 THEN 1 ELSE 0 - 1)
    ELSE IF b > 0 THEN Ratio(a, b) ELSE Ratio(0 - a, 0 - b)

\* x * k for an integer k > 0.
FloatMul(x, k) == IF x.kind = "num" THEN Ratio(x.num * k, x.den) ELSE x

(***************************************************************************)
(* The persistence layer.                                                  *)
(***************************************************************************)
\* A file that does not exist, and a file of zero bytes.
NoFile == [exists |-> FALSE, valid |-> FALSE, data |-> <<>>]
EmptyFile == [exists |-> TRUE, valid |-> FALSE, data |-> <<>>]

\* json.MarshalIndent(panels, "", " "): strings and integers always encode.
MarshalPanels(ps) == [err |-> FALSE, bytes |-> [exists |-> TRUE, valid |-> TRUE, data |-> ps]]

\* json.MarshalIndent(globals, "", " "): a NaN or an infinity is an
\* UnsupportedValueError, and the bytes returned with an error are nil.
MarshalGlobals(gs) ==
    IF \E i \in 1..Len(gs) : gs[i].Performance.kind # "num"
    THEN [err |-> TRUE, bytes |-> EmptyFile]
    ELSE [err |-> FALSE, bytes |-> [exists |-> TRUE, valid |-> TRUE, data |-> gs]]

\* ioutil.WriteFile(name, bytes, 0644): the file is created or truncated,
\* then holds exactly the bytes.
WriteFileAppending(old, bytes) ==
    [exists |-> TRUE, valid |-> old.valid /\ bytes.valid, data |-> old.data \o bytes.data]
WriteFile(old, bytes) == bytes

\* json.Unmarshal(byteValue, &slice) with its error dropped: bytes that do
\* not decode leave the slice nil.
Unmarshal(file) == IF file.valid THEN file.data ELSE <<>>

\* Whether json.Unmarshal returned an error (the code never looks).
UnmarshalFails(file) == ~file.valid

(***************************************************************************)
(* main: merge and aggregation.                                            *)
(***************************************************************************)
\* append(panel.HistoricalData, liveDataMap[panel.InverterID])
AppendReadingOnly(history, liveData) == <<liveData>>
AppendReading(history, liveData) == Append(history, liveData)

\* The panels after the loop of lines 220-223.
MergePanels(ps, m) ==
    [i \in 1..Len(ps) |->
        [InverterID |-> ps[i].InverterID,
         HistoricalData |->
            AppendReading(ps[i].HistoricalData, Lookup(m, ps[i].InverterID))]]

\* *totalOutput after the loop: the power of every reading appended.
RECURSIVE SumPower(_, _, _)
SumPower(ps, m, n) ==
    IF n = 0 THEN 0
    ELSE SumPower(ps, m, n - 1) + Lookup(m, ps[n].InverterID).CurrentPower

RECURSIVE SumAll(_, _)
SumAll(m, ids) ==
    IF ids = {} THEN 0
    ELSE LET id == CHOOSE x \in ids : TRUE
         IN  m[id].CurrentPower + SumAll(m, ids \ {id})

TotalOutputOfAllReadings(ps, m) == SumAll(m, DOMAIN m)
TotalOutput(ps, m) == SumPower(ps, m, Len(ps))

\* theoreticalTotalOutput := int64(len(panels)) * maxPower
TheoreticalTotalOutput(ps) == Len(ps) * maxPower

\* (float64(*totalOutput) / float64(theoreticalTotalOutput) * 100)
Performance(total, theoretical) == FloatMul(FloatDiv(total, theoretical), 100)

\* The SolarData a successful UV request gives, and the zero value.
ZeroSolarData ==
    [Uvi |-> 0, UvMax |-> 0, UvMaxTime |-> "", SunAltitude |-> 0, SunAzimuth |-> 0]
SolarSnapshots ==
    {[Uvi |-> 3, UvMax |-> 7, UvMaxTime |-> "2024-01-01T12:00:00Z",
      SunAltitude |-> 1, SunAzimuth |-> 2]}

ZeroGlobalData ==
    [Date |-> 0, Power |-> 0, Performance |-> Ratio(0, 1), SolarData |-> ZeroSolarData]

\* The GlobalData of lines 227-230; now stands for the formatted time.Now().
MakeGlobalData(ps, m, solar, now) ==
    [Date |-> now,
     Power |-> TotalOutput(ps, m),
     Performance |-> Performance(TotalOutput(ps, m), TheoreticalTotalOutput(ps)),
     SolarData |-> solar]

(***************************************************************************)
(* The state after construction.                                           *)
(***************************************************************************)
PanelIDs == {INV1, INV2}

\* The contents panels.json starts with: an array of panels without history.
InitialPanels ==
    {[i \in 1..Len(ids) |-> [InverterID |-> ids[i], HistoricalData |-> <<>>]] :
        ids \in SeqsUpTo(PanelIDs, MaxPanels)}

Content(data) == [exists |-> TRUE, valid |-> TRUE, data |-> data]

NoLoad == [panels |-> NoFile, global |-> NoFile]

InitRun ==
    /\ \E ps \in InitialPanels, pf \in BOOLEAN, gf \in BOOLEAN :
          files = [f \in {panelFile, globalFile} |->
                     IF f = panelFile
                     THEN (IF pf THEN Content(ps) ELSE NoFile)
                     ELSE (IF gf THEN Content(<<>>) ELSE NoFile)]
    /\ pc = [p \in Procs |-> "idle"]
    /\ liveDataMap = [p \in Procs |-> EmptyMap]
    /\ solarData = [p \in Procs |-> ZeroSolarData]
    /\ panels = [p \in Procs |-> <<>>]
    /\ globalData = [p \in Procs |-> ZeroGlobalData]
    /\ globals = [p \in Procs |-> <<>>]
    /\ errs = [p \in Procs |-> {}]
    /\ runs = 0
    /\ before = [p \in Procs |-> files]
    /\ loaded = [p \in Procs |-> NoLoad]

IdleRun ==
    /\ files = [f \in {panelFile, globalFile} |-> NoFile]
    /\ pc = [p \in Procs |-> "idle"]
    /\ liveDataMap = [p \in Procs |-> EmptyMap]
    /\ solarData = [p \in Procs |-> ZeroSolarData]
    /\ panels = [p \in Procs |-> <<>>]
    /\ globalData = [p \in Procs |-> ZeroGlobalData]
    /\ globals = [p \in Procs |-> <<>>]
    /\ errs = [p \in Procs |-> {}]
    /\ runs = 0
    /\ before = [p \in Procs |-> files]
    /\ loaded = [p \in Procs |-> NoLoad]

IdleParse == dataMap = EmptyMap /\ rows = <<>>

IdleCell == cellText = <<>> /\ cellValue = 0 /\ cellDone = FALSE

Init == InitRun /\ IdleParse /\ IdleCell

(***************************************************************************)
(* main, step by step.  A process is one invocation of the tool.           *)
(***************************************************************************)
\* The tool is invoked: main starts with fresh locals.
StartRun(p) ==
    /\ pc[p] = "idle"
    /\ runs < MaxRuns
    /\ runs' = runs + 1
    /\ pc' = [pc EXCEPT ![p] = "parseRealTime"]
    /\ liveDataMap' = [liveDataMap EXCEPT ![p] = EmptyMap]
    /\ solarData' = [solarData EXCEPT ![p] = ZeroSolarData]
    /\ panels' = [panels EXCEPT ![p] = <<>>]
    /\ globalData' = [globalData EXCEPT ![p] = ZeroGlobalData]
    /\ globals' = [globals EXCEPT ![p] = <<>>]
    /\ errs' = [errs EXCEPT ![p] = {}]
    /\ before' = [before EXCEPT ![p] = files]
    /\ loaded' = [loaded EXCEPT ![p] = NoLoad]
    /\ UNCHANGED <<files, parseVars, cellVars>>

\* liveDataMap := parseRealTime().  The error c.Visit returns is dropped: a
\* page that cannot be fetched runs no callback and leaves the map empty.
ParseRealTime(p) ==
    /\ pc[p] = "parseRealTime"
    /\ \/ /\ \E m \in LiveMaps : liveDataMap' = [liveDataMap EXCEPT ![p] = m]
          /\ errs' = errs
       \/ /\ liveDataMap' = [liveDataMap EXCEPT ![p] = EmptyMap]
          /\ errs' = [errs EXCEPT ![p] = @ \cup {"fetch"}]
    /\ pc' = [pc EXCEPT ![p] = "getData"]
    /\ UNCHANGED <<files, solarData, panels, globalData, globals, runs, before,
                   loaded, parseVars, cellVars>>

\* solarData := makeSolarData(getData(openUvURL, token)).  A failed request
\* (resp is nil), an unreadable body, a malformed body and a payload of
\* another shape all end the process here.
GetSolarData(p) ==
    /\ pc[p] = "getData"
    /\ \/ /\ \E sd \in SolarSnapshots : solarData' = [solarData EXCEPT ![p] = sd]
          /\ pc' = [pc EXCEPT ![p] = "loadPanels"]
          /\ errs' = errs
       \/ /\ solarData' = solarData
          /\ pc' = [pc EXCEPT ![p] = "aborted"]
          /\ errs' = [errs EXCEPT ![p] = @ \cup {"uv"}]
    /\ UNCHANGED <<files, liveDataMap, panels, globalData, globals, runs, before,
                   loaded, parseVars, cellVars>>

\* panels := loadPanelsFromJSON()
LoadPanels(p) ==
    /\ pc[p] = "loadPanels"
    /\ IF ~files[panelFile].exists
       THEN /\ pc' = [pc EXCEPT ![p] = "aborted"]
            /\ errs' = [errs EXCEPT ![p] = @ \cup {"openPanels"}]
            /\ UNCHANGED <<panels, loaded>>
       ELSE /\ panels' = [panels EXCEPT ![p] = Unmarshal(files[panelFile])]
            /\ loaded' = [loaded EXCEPT ![p].panels = files[panelFile]]
            /\ errs' = [errs EXCEPT ![p] =
                          IF UnmarshalFails(files[panelFile])
                          THEN @ \cup {"decodePanels"} ELSE @]
            /\ pc' = [pc EXCEPT ![p] = "merge"]
    /\ UNCHANGED <<files, liveDataMap, solarData, globalData, globals, runs, before,
                   parseVars, cellVars>>

\* Lines 218-230: the loop over the panels and the GlobalData of the run.
Merge(p) ==
    /\ pc[p] = "merge"
    /\ panels' = [panels EXCEPT ![p] = MergePanels(panels[p], liveDataMap[p])]
    /\ globalData' = [globalData EXCEPT ![p] =
                        MakeGlobalData(panels[p], liveDataMap[p], solarData[p], runs)]
    /\ pc' = [pc EXCEPT ![p] = "loadGlobal"]
    /\ UNCHANGED <<files, liveDataMap, solarData, globals, errs, runs, before,
                   loaded, parseVars, cellVars>>

\* globals := loadGlobalFromJSON(); globals = append(globals, globalData)
LoadGlobal(p) ==
    /\ pc[p] = "loadGlobal"
    /\ IF ~files[globalFile].exists
       THEN /\ pc' = [pc EXCEPT ![p] = "aborted"]
            /\ errs' = [errs EXCEPT ![p] = @ \cup {"openGlobal"}]
            /\ UNCHANGED <<globals, loaded>>
       ELSE /\ globals' = [globals EXCEPT ![p] =
                             Append(Unmarshal(files[globalFile]), globalData[p])]
            /\ loaded' = [loaded EXCEPT ![p].global = files[globalFile]]
            /\ errs' = [errs EXCEPT ![p] =
                          IF UnmarshalFails(files[globalFile])
                          THEN @ \cup {"decodeGlobal"} ELSE @]
            /\ pc' = [pc EXCEPT ![p] = "savePanels"]
    /\ UNCHANGED <<files, liveDataMap, solarData, panels, globalData, runs, before,
                   parseVars, cellVars>>

\* savePanels(panels): both errors are dropped.
SavePanels(p) ==
    /\ pc[p] = "savePanels"
    /\ files' = [files EXCEPT ![panelFile] =
                    WriteFile(@, MarshalPanels(panels[p]).bytes)]
    /\ errs' = [errs EXCEPT ![p] =
                  IF MarshalPanels(panels[p]).err THEN @ \cup {"encodePanels"} ELSE @]
    /\ pc' = [pc EXCEPT ![p] = "saveGlobal"]
    /\ UNCHANGED <<liveDataMap, solarData, panels, globalData, globals, runs, before,
                   loaded, parseVars, cellVars>>

\* saveGlobal(globals): both errors are dropped; main returns.
SaveGlobal(p) ==
    /\ pc[p] = "saveGlobal"
    /\ files' = [files EXCEPT ![globalFile] =
                    WriteFile(@, MarshalGlobals(globals[p]).bytes)]
    /\ errs' = [errs EXCEPT ![p] =
                  IF MarshalGlobals(globals[p]).err THEN @ \cup {"encodeGlobal"} ELSE @]
    /\ pc' = [pc EXCEPT ![p] = "done"]
    /\ UNCHANGED <<liveDataMap, solarData, panels, globalData, globals, runs, before,
                   loaded, parseVars, cellVars>>

\* The process has ended; the tool can be invoked again.
Exit(p) ==
    /\ pc[p] \in {"done", "aborted"}
    /\ runs < MaxRuns
    /\ pc' = [pc EXCEPT ![p] = "idle"]
    /\ UNCHANGED <<files, liveDataMap, solarData, panels, globalData, globals, errs,
                   runs, before, loaded, parseVars, cellVars>>

Step(p) ==
    \/ StartRun(p)
    \/ ParseRealTime(p)
    \/ GetSolarData(p)
    \/ LoadPanels(p)
    \/ Merge(p)
    \/ LoadGlobal(p)
    \/ SavePanels(p)
    \/ SaveGlobal(p)

\* One invocation after the other (the tool run from a scheduler).
Next == Step(1) \/ Exit(1)

Spec == Init /\ [][Next]_vars

\* Two invocations against the same files, their steps interleaved.
NextConc == \E p \in Procs : Step(p)

SpecConc == Init /\ [][NextConc]_vars

(***************************************************************************)
(* parseRealTime alone: the collector hands the rows of the table to the   *)
(* callback one by one, in document order.                                 *)
(***************************************************************************)
InitParse == IdleRun /\ IdleParse /\ IdleCell

OnHTML ==
    /\ Len(rows) < MaxRows
    /\ \E row \in TableRows :
          /\ rows' = Append(rows, row)
          /\ dataMap' = OnHTMLRow(dataMap, row)
    /\ UNCHANGED <<runVars, cellVars>>

NextParse == OnHTML

SpecParse == InitParse /\ [][NextParse]_vars

(***************************************************************************)
(* The numeric extraction alone, on every cell text of the model.          *)
(***************************************************************************)
InitCell ==
    /\ IdleRun
    /\ IdleParse
    /\ cellText \in Cells
    /\ cellValue = 0
    /\ cellDone = FALSE

ExtractCell ==
    /\ ~cellDone
    /\ cellValue' = ExtractInt(cellText)
    /\ cellDone' = TRUE
    /\ UNCHANGED <<cellText, runVars, parseVars>>

NextCell == ExtractCell

SpecCell == InitCell /\ [][NextCell]_vars

(***************************************************************************)
(* Properties.                                                             *)
(***************************************************************************)
\* The run of process p has gone through the merge of lines 218-230.
MergeDone(p) == pc[p] \in {"loadGlobal", "savePanels", "saveGlobal", "done"}

IdsOf(ps) == [i \in 1..Len(ps) |-> ps[i].InverterID]

Last(s) == s[Len(s)]

\* C1: a completed run that started from files that load leaves global.json
\* holding the previous summary sequence, unchanged and in order, followed by
\* exactly one new entry.
GlobalAppendOnly ==
    (/\ pc[1] = "done"
     /\ before[1][panelFile].valid
     /\ before[1][globalFile].valid)
    => /\ files[globalFile].valid
       /\ Len(files[globalFile].data) = Len(before[1][globalFile].data) + 1
       /\ SubSeq(files[globalFile].data, 1, Len(before[1][globalFile].data))
             = before[1][globalFile].data

\* The reading a run appends to the panel called id.
ExpectedReading(p, id) ==
    IF id \in DOMAIN liveDataMap[p] THEN liveDataMap[p][id] ELSE ZeroLiveData

\* C2: after a completed run the persisted history of every known panel is
\* its history before the run followed by exactly one Reading: the live
\* reading keyed by its inverterID if there is one, else the all-zero Reading.
PanelHistoryAppended ==
    pc[1] = "done" =>
        LET old == before[1][panelFile].data
            new == files[panelFile]
        IN  /\ new.valid
            /\ Len(new.data) = Len(old)
            /\ \A i \in 1..Len(old) :
                  /\ new.data[i].InverterID = old[i].InverterID
                  /\ new.data[i].HistoricalData =
                        old[i].HistoricalData
                            \o <<ExpectedReading(1, old[i].InverterID)>>

\* A second run has completed with one panel matched by a live reading and
\* another one not.
PanelHistoryAppendedWitness ==
    /\ pc[1] = "done"
    /\ \E i, j \in 1..Len(files[panelFile].data) :
          /\ files[panelFile].data[i].InverterID \in DOMAIN liveDataMap[1]
          /\ files[panelFile].data[j].InverterID \notin DOMAIN liveDataMap[1]
          /\ Len(files[panelFile].data[i].HistoricalData) >= 2
          /\ files[panelFile].data[i].HistoricalData[1].CurrentPower # 0
          /\ Last(files[panelFile].data[j].HistoricalData) = ZeroLiveData

\* C3: a run whose page fetch failed fails fast: it never gets to the save
\* steps, so it persists no zero-valued reading and no summary entry.
FetchFailureIsFatal ==
    \A p \in Procs : "fetch" \in errs[p] => files = before[p]

\* The failures of C4.
PersistenceFailures ==
    {"uv", "openPanels", "openGlobal", "decodePanels", "decodeGlobal",
     "encodePanels", "encodeGlobal"}

\* C4: a run that ended after one of these failures leaves both files with
\* the content they had before the run.
NoPartialResultOnFailure ==
    (/\ pc[1] \in {"done", "aborted"}
     /\ errs[1] \cap PersistenceFailures # {})
    => files = before[1]

NotSeparator(c) == c # ","

\* C5: the extraction yields 0 for a cell without a numeric run, and else
\* the integer of the first numeric run with its separators stripped (stated
\* for first runs of digits, commas and a leading minus only).
NumericExtractionFirstRun ==
    cellDone =>
        LET found == FindAllString(cellText)
        IN  IF found = <<>> THEN cellValue = 0
            ELSE (\A i \in 1..Len(found[1]) : found[1][i] \in DigitSet \cup {",", "-"})
                    => cellValue = ParseInt(SelectSeq(found[1], NotSeparator)).val

Lower(s) == [i \in 1..Len(s) |-> FoldChar(s[i])]

\* The rows with identifier X that are no header row and have power # 0.
KeptRows(X) ==
    {i \in 1..Len(rows) :
        /\ rows[i].InverterID = X
        /\ Lower(X) # Lower(HeaderID)
        /\ ExtractInt(rows[i].Power) # 0}

MaxOf(S) == CHOOSE x \in S : \A y \in S : y <= x

\* C6: the mapping has an entry for X iff some row with identifier X is no
\* header row and has extracted power # 0, and the entry is the Reading of
\* the last such row.
ExtractorMapping ==
    /\ DOMAIN dataMap = {rows[i].InverterID : i \in {k \in 1..Len(rows) :
                            KeptRows(rows[k].InverterID) # {}}}
    /\ \A X \in DOMAIN dataMap :
          dataMap[X] = RowLiveData(rows[MaxOf(KeptRows(X))])

\* After a header row with a number in its power cell: two kept rows of one
\* identifier with different readings, then a zero-power row of it.
ExtractorMappingWitness ==
    \E h, i, j, k \in 1..Len(rows) :
        /\ i < j /\ j < k
        /\ IsHeaderRow(rows[h]) /\ ExtractInt(rows[h].Power) # 0
        /\ rows[h].InverterID # HeaderID
        /\ rows[i].InverterID = rows[j].InverterID
        /\ rows[k].InverterID = rows[j].InverterID
        /\ ~IsHeaderRow(rows[i])
        /\ ExtractInt(rows[i].Power) # 0
        /\ ExtractInt(rows[j].Power) # 0
        /\ ExtractInt(rows[i].Power) # ExtractInt(rows[j].Power)
        /\ ExtractInt(rows[k].Power) = 0
        /\ DOMAIN dataMap = {rows[j].InverterID}
        /\ dataMap[rows[j].InverterID].CurrentPower = ExtractInt(rows[j].Power)

RECURSIVE AppendedPower(_, _)
AppendedPower(ps, n) ==
    IF n = 0 THEN 0
    ELSE AppendedPower(ps, n - 1) + Last(ps[n].HistoricalData).CurrentPower

\* C7: totalPowerWatts is the sum of the power of the readings appended in
\* the run, and performancePercent is the defined number
\* totalPowerWatts / (N * 250) * 100, N the number of loaded panels.
PerformanceFormula ==
    MergeDone(1) =>
        LET N == Len(panels[1])
            T == AppendedPower(panels[1], N)
            perf == globalData[1].Performance
        IN  /\ globalData[1].Power = T
            /\ perf.kind = "num"
            /\ perf.num * (N * 250) = perf.den * (T * 100)

\* C8: what a run holds in memory when it saves is what reloading the saved
\* files yields.
SaveLoadRoundTrip ==
    pc[1] \in {"savePanels", "saveGlobal", "done"} =>
        /\ Unmarshal(WriteFile(files[panelFile], MarshalPanels(panels[1]).bytes))
              = panels[1]
        /\ Unmarshal(WriteFile(files[globalFile], MarshalGlobals(globals[1]).bytes))
              = globals[1]

\* C9: when two interleaved runs that read the same panels.json (the same
\* global.json) have both completed, every panel's history (the summary
\* sequence, if it could be encoded) is one entry longer than what they
\* read, not two: one run's entry is lost.
ConcurrentLostUpdate ==
    (pc[1] = "done" /\ pc[2] = "done") =>
        /\ loaded[1].panels = loaded[2].panels =>
              /\ Len(files[panelFile].data) = Len(loaded[1].panels.data)
              /\ \A i \in 1..Len(files[panelFile].data) :
                    Len(files[panelFile].data[i].HistoricalData)
                       = Len(loaded[1].panels.data[i].HistoricalData) + 1
        /\ (loaded[1].global = loaded[2].global /\ files[globalFile].valid) =>
              Len(files[globalFile].data) = Len(Unmarshal(loaded[1].global)) + 1

\* Both runs have completed and both files hold one new entry only.
ConcurrentLostUpdateWitness ==
    /\ pc[1] = "done" /\ pc[2] = "done"
    /\ runs = 2
    /\ loaded[1].panels = loaded[2].panels
    /\ loaded[1].global = loaded[2].global
    /\ Len(files[panelFile].data) > 0
    /\ \A i \in 1..Len(files[panelFile].data) :
          Len(files[panelFile].data[i].HistoricalData) = 1
    /\ files[globalFile].valid
    /\ Len(files[globalFile].data) = 1

RECURSIVE KnownPower(_, _, _)
KnownPower(ids, m, n) ==
    IF n = 0 THEN 0
    ELSE KnownPower(ids, m, n - 1)
            + (IF ids[n] \in DOMAIN m THEN m[ids[n]].CurrentPower ELSE 0)

\* C10: no step changes which panels panels.json holds, nor their order, and
\* totalPowerWatts counts the live readings of the loaded panels only.
PanelSetUnchanged ==
    /\ [][/\ files'[panelFile].exists = files[panelFile].exists
          /\ files'[panelFile].valid = files[panelFile].valid
          /\ IdsOf(files'[panelFile].data) = IdsOf(files[panelFile].data)]_vars
    /\ [](MergeDone(1) =>
            globalData[1].Power =
               KnownPower(IdsOf(loaded[1].panels.data), liveDataMap[1],
                          Len(loaded[1].panels.data)))

\* A second run has completed with a live reading of an inverter that is no
\* panel of panels.json.
PanelSetUnchangedWitness ==
    /\ pc[1] = "done"
    /\ runs >= 2
    /\ Len(files[panelFile].data) > 0
    /\ \E id \in DOMAIN liveDataMap[1] :
          \A i \in 1..Len(files[panelFile].data) :
              files[panelFile].data[i].InverterID # id
    /\ globalData[1].Power > 0

====
